---- MODULE Spec2Model ----
(***************************************************************************)
(* Model of the monarch observation fetcher (scripts/fetch_observations.py) *)
(* with the persistence layer it writes to (the observations table of      *)
(* scripts/init_db.py, the image directory, scripts/purge_database.py).    *)
(*                                                                         *)
(* An observation is modelled by its id.  The remote catalog is            *)
(* nondeterministic: a count query fails or returns a total, a page        *)
(* request fails or returns any sequence of ids (pages may overlap and     *)
(* repeat records).                                                        *)
(*                                                                         *)
(* main calls process_observation (line 274), which the source does not    *)
(* define.  Its steps are taken from the design (fetch the asset, then     *)
(* persist): download_image as in scripts/ingest_data.py, followed by      *)
(* save_observation.  Spec runs the fetcher again and again, one run after *)
(* the other, with purges at any time; SpecConc lets the processing loops  *)
(* of two runs overlap (SpecOverlap: with the candidates of one page       *)
(* each); SpecBuilder is the pool build alone, for corpora                 *)
(* that take more than 20 pages; SpecFn evaluates single calls (the pool   *)
(* target decisions, the coordinate fields of a record) over wider         *)
(* arguments; SpecIngest is the ingestion pipeline of                      *)
(* scripts/ingest_data.py; SpecOneRun is one run of the fetcher from start *)
(* to end, with no purge and with requests that may never return;          *)
(* SpecSync is scripts/sync_to_labelstudio.py and SpecInitDb is            *)
(* scripts/init_db.py run as a script.                                     *)
(***************************************************************************)
EXTENDS Integers, Sequences, FiniteSets, TLC

\* ---------------------------------------------------------------- bounds
MaxIds == 2
MaxBatch == 1
MaxTarget == 2
MaxSeqTotal == 2
MaxBudgetArg == 1

\* ------------------------------------------------------ program constants
PoolMultiplier == 10
PoolFloor == 200
BuilderMaxAttempts == 20
MaxAccessible == 10000
PageSize == 200

Runs == {"r1", "r2"}
Ids == 1..MaxIds
NoArg == -1

Max(a, b) == IF a >= b THEN a ELSE b
Min(a, b) == IF a <= b THEN a ELSE b
Range(s) == {s[i] : i \in 1..Len(s)}
SeqsUpTo(n) == UNION {[1..k -> Ids] : k \in 0..n}

\* every page the remote may answer with (an empty page included)
BatchChoices == SeqsUpTo(MaxBatch)
\* the totals the count query may report: a small corpus, and corpora past
\* the pool target, below and above the offset ceiling
TotalChoices == (0..MaxSeqTotal) \cup {PoolFloor + 1, MaxAccessible + PageSize}
TargetChoices == 1..MaxTarget
ArgChoices == {NoArg} \cup (1..MaxBudgetArg)

VARIABLES
  run,              \* run[r]: the locals of main() and of the functions it calls
  hist,             \* hist[r]: what run r did (requests, attempts, accepted ids, outcome)
  observations,     \* observations[id]: number of rows of the table with that observation_id
  images,           \* images[id]: state of data/images/<id>.jpg
  lastSave,         \* the latest save_observation call: who, which id, the row was there,
                    \* the insert raised, result
  idsAtLastFinish,  \* ids in the table when the latest run ended; a purge forgets them
  call,             \* one call of a function of the fetcher: its arguments and what it gave
  ingest,           \* the locals of main() of scripts/ingest_data.py
  processed_log,    \* processed_log[id]: lines of data/processed_observations.txt with that id
  tasks,            \* tasks[id]: tasks of the Label Studio project for that observation
  sync,             \* the locals of main() of scripts/sync_to_labelstudio.py
  initdb            \* the locals of scripts/init_db.py run as a script

vars == <<run, hist, observations, images, lastSave, idsAtLastFinish,
          call, ingest, processed_log, tasks, sync, initdb>>

NoLocals ==
  [pc |-> "idle", target_count |-> 0, existing_ids |-> {},
   total_results |-> 0, attempts |-> 0, offset |-> 0, page |-> 0,
   candidates |-> <<>>, idx |-> 0, processed_count |-> 0]

NoHist ==
  [count |-> "none",     \* the count query: "none", "ok", "failed"
   pageRequests |-> 0,   \* page requests issued by the pool build under way
   lastPage |-> "none",  \* its latest page request: "results", "empty", "error"
   written |-> FALSE,    \* the image of the candidate in hand was written in full
   attemptLog |-> <<>>,  \* ids process_observation was called for
   acceptLog |-> <<>>,   \* ids counted as accepted (processed_count was raised)
   outcome |-> "none",   \* how the run ended
   reported |-> 0]       \* the count of the "Completed" message

NoSave == [run |-> "none", id |-> 0, existed |-> FALSE, raised |-> FALSE, ret |-> FALSE]

\* the value None / the SQL NULL of a text field (no character string equals it)
Null == <<"NULL">>

\* no function call is under way
NoCall ==
  [fn |-> "none", done |-> FALSE,
   target_count |-> 0, total_results |-> 0, size |-> 0, attempts |-> 0,
   given |-> FALSE, location |-> <<>>,
   path |-> "none", goes_on |-> FALSE,
   ret |-> FALSE, latitude |-> Null, longitude |-> Null]

\* the ingestion pipeline is not running
NoIngest ==
  [pc |-> "off", processed |-> {}, obs_id |-> 0, photos |-> FALSE, written |-> FALSE,
   synced |-> FALSE,   \* sync_to_label_studio returned True for the observation in hand
   last |-> "none"]    \* how the iteration that has just ended went

\* the bulk sync to Label Studio is not running
NoSync ==
  [pc |-> "off", skip_duplicates |-> FALSE, num |-> 0, existing_ids |-> {},
   observations |-> <<>>, idx |-> 0, created_count |-> 0, skipped_count |-> 0,
   listing |-> "none"]   \* how the request for the existing tasks went

\* init_db.py is not running
NoInitDb ==
  [pc |-> "off", max_attempts |-> 0, attempt |-> 0, ret |-> "none",
   connects |-> 0,       \* connection attempts wait_for_db has made
   failed |-> 0,         \* those that raised OperationalError
   schema |-> "none"]    \* init_schema: "none", "called"

\* the other scripts and the single function calls stay as they are
Elsewhere == UNCHANGED <<call, ingest, processed_log, tasks, sync, initdb>>

Init ==
  /\ run = [r \in Runs |-> NoLocals]
  /\ hist = [r \in Runs |-> NoHist]
  /\ observations = [i \in Ids |-> 0]
  /\ images = [i \in Ids |-> "none"]
  /\ lastSave = NoSave
  /\ idsAtLastFinish = {}
  /\ call = NoCall
  /\ ingest = NoIngest
  /\ processed_log = [i \in Ids |-> 0]
  /\ tasks = [i \in Ids |-> 0]
  /\ sync = NoSync
  /\ initdb = NoInitDb

Goto(r, fields) == run' = [run EXCEPT ![r] = fields]
Note(r, fields) == hist' = [hist EXCEPT ![r] = fields]
DbUnchanged == UNCHANGED <<observations, images, lastSave, idsAtLastFinish>>

\* ids that have a row in the observations table
TableIds == {i \in Ids : observations[i] > 0}

\* main has returned: its locals are gone
Returned == [NoLocals EXCEPT !.pc = "done"]

\* (mutant) the count reported is the number of candidates tried
EndedCountingAttempts(r, how) ==
  [NoHist EXCEPT !.outcome = how, !.count = hist[r].count,
                 !.attemptLog = hist[r].attemptLog,
                 !.acceptLog = hist[r].acceptLog,
                 !.reported = IF how = "completed" THEN Len(hist[r].attemptLog) ELSE 0]

\* main, lines 279-287: what is left of a run when it has ended: how it ended,
\* what it tried and accepted, and the count of the "Completed" message
Ended(r, how) ==
  [NoHist EXCEPT !.outcome = how, !.count = hist[r].count,
                 !.attemptLog = hist[r].attemptLog,
                 !.acceptLog = hist[r].acceptLog,
                 !.reported = IF how = "completed" THEN run[r].processed_count ELSE 0]

\* a run is between its start and its end
Active(r) == run[r].pc \notin {"idle", "done"}

\* ------------------------------------------------------------------ main
\* (mutant) the run goes on although the connection could not be opened
StartWithoutReturn(r) ==
  /\ run[r].pc = "idle"
  /\ \E n \in TargetChoices, m \in ArgChoices :
       /\ Goto(r, [NoLocals EXCEPT !.pc = "load", !.target_count = n])
       /\ \/ Note(r, NoHist)
          \/ Note(r, [NoHist EXCEPT !.outcome = "no_connection"])
  /\ DbUnchanged
  /\ Elsewhere

\* main, lines 238-249: the arguments are parsed and the connection opened;
\* without a connection the run returns at once.  args.max_attempts is read
\* nowhere in the program: whatever is given for it, the run is the same
Start(r) ==
  /\ run[r].pc = "idle"
  /\ \E n \in TargetChoices, m \in ArgChoices :
       \/ /\ Goto(r, [NoLocals EXCEPT !.pc = "load", !.target_count = n])
          /\ Note(r, NoHist)
       \/ /\ Goto(r, Returned)
          /\ Note(r, [NoHist EXCEPT !.outcome = "no_connection"])
  /\ DbUnchanged
  /\ Elsewhere

\* (mutant) the registry is not read from the table
get_existing_ids_unread == {}

\* get_existing_ids, lines 215-219: the ids of all rows of the observations table
get_existing_ids == TableIds

\* main, lines 251-254 (a failing query is caught at line 283)
LoadRegistry(r) ==
  /\ run[r].pc = "load"
  /\ \/ /\ Goto(r, [run[r] EXCEPT !.pc = "count", !.existing_ids = get_existing_ids])
        /\ UNCHANGED hist
     \/ /\ Goto(r, Returned)
        /\ Note(r, Ended(r, "unexpected_error"))
  /\ DbUnchanged
  /\ Elsewhere

\* ------------------------------------------------------ fetch_candidates
\* (mutant) the smaller of the two
pool_target_min(target_count) == Min(target_count * PoolMultiplier, PoolFloor)

\* fetch_candidates, line 113
pool_target(target_count) == Max(target_count * PoolMultiplier, PoolFloor)

\* fetch_candidates, line 133: a small corpus is paged through in sequence
FetchesSequentially(total_results, target_count) ==
  total_results <= pool_target(target_count)

\* fetch_candidates, line 144: the condition of the sampling loop
SamplingContinues(size, attempts, target_count) ==
  /\ size < pool_target(target_count)
  /\ attempts < BuilderMaxAttempts

\* (mutant) a failed count query is swallowed and sampling goes on
CountQueryFallsThrough(r) ==
  /\ run[r].pc = "count"
  /\ \/ /\ Goto(r, [run[r] EXCEPT !.pc = "seq", !.total_results = 1, !.page = 1,
                                   !.candidates = <<>>])
        /\ Note(r, [hist[r] EXCEPT !.count = "failed"])
     \/ \E total \in TotalChoices :
          /\ Goto(r, [run[r] EXCEPT
                        !.pc = IF FetchesSequentially(total, run[r].target_count)
                               THEN "seq" ELSE "sample",
                        !.total_results = total, !.attempts = 0, !.page = 1,
                        !.candidates = <<>>])
          /\ Note(r, [hist[r] EXCEPT !.count = "ok"])
  /\ DbUnchanged
  /\ Elsewhere

\* fetch_candidates, lines 116-135: the count query; on failure the empty
\* list is returned
CountQuery(r) ==
  /\ run[r].pc = "count"
  /\ \/ /\ Goto(r, [run[r] EXCEPT !.pc = "shuffle", !.candidates = <<>>])
        /\ Note(r, [hist[r] EXCEPT !.count = "failed"])
     \/ \E total \in TotalChoices :
          /\ Goto(r, [run[r] EXCEPT
                        !.pc = IF FetchesSequentially(total, run[r].target_count)
                               THEN "seq" ELSE "sample",
                        !.total_results = total, !.attempts = 0, !.page = 1,
                        !.candidates = <<>>])
          /\ Note(r, [hist[r] EXCEPT !.count = "ok"])
  /\ DbUnchanged
  /\ Elsewhere

\* (mutant) the paging loop asks for one page more
PagingOneMore(r) == Len(run[r].candidates) <= run[r].total_results

\* (mutant) the paging loop stops one record short
PagingStopsShort(r) == Len(run[r].candidates) < run[r].total_results - 1

\* fetch_all_available, line 191
PagingGoesOn(r) == Len(run[r].candidates) < run[r].total_results

\* fetch_all_available, lines 191-212: one turn of the paging loop, with the
\* pages the remote may answer with; the request raises (break), or the page
\* is empty (break), or it is appended
SeqPageFrom(r, batches) ==
  /\ run[r].pc = "seq"
  /\ PagingGoesOn(r)
  /\ \/ /\ Goto(r, [run[r] EXCEPT !.pc = "shuffle"])
        /\ Note(r, [hist[r] EXCEPT !.pageRequests = @ + 1, !.lastPage = "error"])
     \/ \E batch \in batches :
          IF batch = <<>>
          THEN /\ Goto(r, [run[r] EXCEPT !.pc = "shuffle"])
               /\ Note(r, [hist[r] EXCEPT !.pageRequests = @ + 1, !.lastPage = "empty"])
          ELSE /\ Goto(r, [run[r] EXCEPT !.candidates = @ \o batch, !.page = @ + 1])
               /\ Note(r, [hist[r] EXCEPT !.pageRequests = @ + 1, !.lastPage = "results"])
  /\ DbUnchanged
  /\ Elsewhere

\* fetch_all_available, lines 191-212, with any page for an answer
SeqPage(r) == SeqPageFrom(r, BatchChoices)

\* fetch_all_available, lines 191 and 213: the loop ends, results are returned
SeqReturn(r) ==
  /\ run[r].pc = "seq"
  /\ ~PagingGoesOn(r)
  /\ Goto(r, [run[r] EXCEPT !.pc = "shuffle"])
  /\ UNCHANGED hist
  /\ DbUnchanged
  /\ Elsewhere

\* (mutant) the page size is not taken off the last offset
max_start_whole_window(total_results) == Max(0, Min(total_results, MaxAccessible))

\* fetch_candidates, lines 142 and 150
max_start(total_results) == Max(0, Min(total_results, MaxAccessible) - PageSize)

\* random.randint(0, max_start): the two ends of the range stand for the draw
OffsetChoices(total_results) == {0, max_start(total_results)}

\* lines 159-162: an observation joins the pool unless the pool or the
\* registry already holds its id
RECURSIVE MergeBatch(_, _, _)
MergeBatch(candidates, batch, existing_ids) ==
  IF batch = <<>> THEN candidates
  ELSE MergeBatch(IF Head(batch) \notin Range(candidates) /\ Head(batch) \notin existing_ids
                  THEN Append(candidates, Head(batch)) ELSE candidates,
                  Tail(batch), existing_ids)

\* line 144
SamplingGoesOn(r) ==
  SamplingContinues(Len(run[r].candidates), run[r].attempts, run[r].target_count)

\* lines 144-162: one turn of the sampling loop; fetch_batch answers a failed
\* request with the empty list, and an empty batch ends the loop
SamplePage(r) ==
  /\ run[r].pc = "sample"
  /\ SamplingGoesOn(r)
  /\ \E o \in OffsetChoices(run[r].total_results), batch \in BatchChoices :
       /\ IF batch = <<>>
          THEN Goto(r, [run[r] EXCEPT !.pc = "shuffle", !.attempts = @ + 1, !.offset = o])
          ELSE Goto(r, [run[r] EXCEPT
                          !.attempts = @ + 1, !.offset = o,
                          !.candidates = MergeBatch(@, batch, run[r].existing_ids)])
       /\ Note(r, [hist[r] EXCEPT !.pageRequests = @ + 1,
                                  !.lastPage = IF batch = <<>> THEN "empty" ELSE "results"])
  /\ DbUnchanged
  /\ Elsewhere

\* lines 144 and 164: the loop ends, the pool is returned
SampleReturn(r) ==
  /\ run[r].pc = "sample"
  /\ ~SamplingGoesOn(r)
  /\ Goto(r, [run[r] EXCEPT !.pc = "shuffle"])
  /\ UNCHANGED hist
  /\ DbUnchanged
  /\ Elsewhere

\* all orderings of a list
Shuffles(s) == {[i \in 1..Len(s) |-> s[p[i]]] : p \in Permutations(1..Len(s))}

\* main, lines 258-265: fetch_candidates has returned (its locals are gone),
\* the pool is shuffled and the loop begins
Shuffle(r) ==
  /\ run[r].pc = "shuffle"
  /\ \E s \in Shuffles(run[r].candidates) :
       Goto(r, [run[r] EXCEPT !.pc = "loop", !.candidates = s, !.idx = 1,
                              !.processed_count = 0, !.total_results = 0,
                              !.attempts = 0, !.offset = 0, !.page = 0])
  /\ Note(r, [hist[r] EXCEPT !.pageRequests = 0, !.lastPage = "none"])
  /\ DbUnchanged
  /\ Elsewhere

\* --------------------------------------------------- the processing loop
\* the candidate the loop is at
Current(r) == run[r].candidates[run[r].idx]

\* (mutant) the loop does not stop at the target
InLoopPastTarget(r) ==
  /\ run[r].pc = "loop"
  /\ run[r].idx <= Len(run[r].candidates)

\* main, line 266 (the pool is not exhausted) and line 267 (target not reached)
InLoop(r) ==
  /\ run[r].pc = "loop"
  /\ run[r].idx <= Len(run[r].candidates)
  /\ run[r].processed_count < run[r].target_count

\* main, lines 266-268 and 279: the loop ends and the count is reported
Complete(r) ==
  /\ run[r].pc = "loop"
  /\ ~InLoop(r)
  /\ Goto(r, Returned)
  /\ Note(r, Ended(r, "completed"))
  /\ DbUnchanged
  /\ Elsewhere

\* (mutant) a candidate of the registry is counted as an attempt
SkipKnownCounted(r) ==
  /\ InLoop(r)
  /\ Current(r) \in run[r].existing_ids
  /\ Goto(r, [run[r] EXCEPT !.idx = @ + 1])
  /\ Note(r, [hist[r] EXCEPT !.attemptLog = Append(@, Current(r))])
  /\ DbUnchanged
  /\ Elsewhere

\* main, lines 271-272: an id of the registry is passed over
SkipKnown(r) ==
  /\ InLoop(r)
  /\ Current(r) \in run[r].existing_ids
  /\ Goto(r, [run[r] EXCEPT !.idx = @ + 1])
  /\ UNCHANGED hist
  /\ DbUnchanged
  /\ Elsewhere

\* (mutant) a candidate is added to the registry although it was not persisted
RejectedRegistered(r) ==
  [run[r] EXCEPT !.pc = "loop", !.idx = @ + 1,
                 !.existing_ids = @ \cup {run[r].candidates[run[r].idx]}]

\* main, line 274 when process_observation returned False: the next candidate
Rejected(r) == [run[r] EXCEPT !.pc = "loop", !.idx = @ + 1]

\* (mutant) the accepted id is not added to the registry
AcceptedUnregistered(r) ==
  [run[r] EXCEPT !.pc = "loop", !.idx = @ + 1, !.processed_count = @ + 1]

\* main, lines 274-277 when process_observation returned True
Accepted(r) ==
  [run[r] EXCEPT !.pc = "loop", !.idx = @ + 1, !.processed_count = @ + 1,
                 !.existing_ids = @ \cup {Current(r)}]

\* main, line 274: process_observation is called for a candidate that is not
\* in the registry; it first requests the image (download_image, lines 86-92):
\* the request fails and the candidate is given up, or the file is opened for
\* writing, which empties it
ProcessObservation(r) ==
  /\ InLoop(r)
  /\ Current(r) \notin run[r].existing_ids
  /\ Note(r, [hist[r] EXCEPT !.attemptLog = Append(@, Current(r))])
  /\ \/ /\ Goto(r, Rejected(r))
        /\ UNCHANGED images
     \/ /\ Goto(r, [run[r] EXCEPT !.pc = "write"])
        /\ images' = [images EXCEPT ![Current(r)] = "partial"]
  /\ UNCHANGED <<observations, lastSave, idsAtLastFinish>>
  /\ Elsewhere

\* (mutant) the file name is returned although the stream failed
download_image_unchecked(written) == "filename"

\* download_image, lines 92-99: when every chunk was written the file name
\* is returned; when the stream failed, None
download_image(written) == IF written THEN "filename" ELSE "None"

\* process_observation, after the image request: the chunks are written, in
\* full or until the stream fails (the file stays as far as it was written);
\* with a file name the observation is saved, without one it is given up
DownloadImage(r) ==
  /\ run[r].pc = "write"
  /\ \E written \in BOOLEAN :
       /\ images' = [images EXCEPT ![Current(r)] = IF written THEN "complete" ELSE @]
       /\ IF download_image(written) # "None"
          THEN /\ Goto(r, [run[r] EXCEPT !.pc = "save"])
               /\ Note(r, [hist[r] EXCEPT !.written = written])
          ELSE /\ Goto(r, Rejected(r))
               /\ UNCHANGED hist
  /\ UNCHANGED <<observations, lastSave, idsAtLastFinish>>
  /\ Elsewhere

\* save_observation, lines 74-81: INSERT ... ON CONFLICT (observation_id) DO NOTHING
InsertOnConflictDoNothing(id) ==
  observations' = [observations EXCEPT ![id] = IF @ = 0 THEN 1 ELSE @]

\* (mutant) True is returned only when the insert wrote a row
SaveReturnNewRowOnly(existed) == ~existed

\* save_observation, lines 99-101: whatever the insert did, True is returned
SaveReturn(existed) == TRUE

\* save_observation, lines 66-105, and what main does with the result:
\* the insert is committed; or it raises and is rolled back; or the rollback
\* raises too (the connection is gone) and main catches that at line 283
SaveObservation(r) ==
  /\ run[r].pc = "save"
  /\ LET id == Current(r)
         existed == observations[id] > 0
     IN \/ /\ InsertOnConflictDoNothing(id)
           /\ lastSave' = [run |-> r, id |-> id, existed |-> existed,
                           raised |-> FALSE, ret |-> SaveReturn(existed)]
           /\ IF SaveReturn(existed)
              THEN /\ Goto(r, Accepted(r))
                   /\ Note(r, [hist[r] EXCEPT !.acceptLog = Append(@, id),
                                              !.written = FALSE])
              ELSE /\ Goto(r, Rejected(r))
                   /\ Note(r, [hist[r] EXCEPT !.written = FALSE])
        \/ /\ UNCHANGED observations
           /\ lastSave' = [run |-> r, id |-> id, existed |-> existed,
                           raised |-> TRUE, ret |-> FALSE]
           /\ Goto(r, Rejected(r))
           /\ Note(r, [hist[r] EXCEPT !.written = FALSE])
        \/ /\ UNCHANGED <<observations, lastSave>>
           /\ Goto(r, Returned)
           /\ Note(r, Ended(r, "unexpected_error"))
  /\ UNCHANGED <<images, idsAtLastFinish>>
  /\ Elsewhere

\* main, lines 281-282: the run is interrupted (or killed) between two steps
Interrupt(r) ==
  /\ Active(r)
  /\ Goto(r, Returned)
  /\ Note(r, Ended(r, "interrupted"))
  /\ DbUnchanged
  /\ Elsewhere

\* main, lines 285-287, and the process ends: its locals are gone
Exit(r) ==
  /\ run[r].pc = "done"
  /\ Goto(r, NoLocals)
  /\ Note(r, NoHist)
  /\ lastSave' = IF lastSave.run = r THEN NoSave ELSE lastSave
  /\ idsAtLastFinish' = TableIds
  /\ UNCHANGED <<observations, images>>
  /\ Elsewhere

\* purge_database.main, lines 48-55 and 71-75: the tables are truncated and
\* every image is deleted
Purge ==
  /\ observations' = [i \in Ids |-> 0]
  /\ images' = [i \in Ids |-> "none"]
  /\ idsAtLastFinish' = {}
  /\ UNCHANGED <<run, hist, lastSave>>
  /\ Elsewhere

\* the fetcher is run again and again, one run after the other
Next ==
  \/ \E r \in {"r1"} :
       \/ Start(r) \/ LoadRegistry(r) \/ CountQuery(r)
       \/ SeqPage(r) \/ SeqReturn(r) \/ SamplePage(r) \/ SampleReturn(r)
       \/ Shuffle(r) \/ Complete(r) \/ SkipKnown(r) \/ ProcessObservation(r)
       \/ DownloadImage(r) \/ SaveObservation(r) \/ Interrupt(r) \/ Exit(r)
  \/ Purge

Spec == Init /\ [][Next]_vars

\* ------------------------------------------------------ two runs at once
\* Two runs that overlap: both have loaded the registry from the same table
\* and built and shuffled their pools (every list of ids is a pool the paging
\* of a small corpus can return), and neither has persisted anything yet.
PoolChoices == SeqsUpTo(MaxSeqTotal)

InitConc ==
  /\ observations \in [Ids -> {0, 1}]
  /\ images = [i \in Ids |-> IF observations[i] > 0 THEN "complete" ELSE "none"]
  /\ run \in [Runs -> {[NoLocals EXCEPT !.pc = "loop", !.target_count = n,
                                        !.existing_ids = TableIds,
                                        !.candidates = pool, !.idx = 1] :
                         n \in TargetChoices, pool \in PoolChoices}]
  /\ hist = [r \in Runs |-> [NoHist EXCEPT !.count = "ok"]]
  /\ lastSave = NoSave
  /\ idsAtLastFinish = {}
  /\ call = NoCall
  /\ ingest = NoIngest
  /\ processed_log = [i \in Ids |-> 0]
  /\ tasks = [i \in Ids |-> 0]
  /\ sync = NoSync
  /\ initdb = NoInitDb

\* the steps of the processing loop of either run, in any order
NextConc ==
  \E r \in Runs :
    \/ Complete(r) \/ SkipKnown(r) \/ ProcessObservation(r)
    \/ DownloadImage(r) \/ SaveObservation(r) \/ Interrupt(r) \/ Exit(r)

SpecConc == InitConc /\ [][NextConc]_vars

\* Two runs that overlap, each with the pool one page gives and a target the
\* pool cannot reach.
InitOverlap ==
  /\ observations \in [Ids -> {0, 1}]
  /\ images = [i \in Ids |-> IF observations[i] > 0 THEN "complete" ELSE "none"]
  /\ run \in [Runs -> {[NoLocals EXCEPT !.pc = "loop", !.target_count = MaxTarget,
                                        !.existing_ids = TableIds,
                                        !.candidates = pool, !.idx = 1] :
                         pool \in BatchChoices}]
  /\ hist = [r \in Runs |-> [NoHist EXCEPT !.count = "ok"]]
  /\ lastSave = NoSave
  /\ idsAtLastFinish = {}
  /\ call = NoCall
  /\ ingest = NoIngest
  /\ processed_log = [i \in Ids |-> 0]
  /\ tasks = [i \in Ids |-> 0]
  /\ sync = NoSync
  /\ initdb = NoInitDb

SpecOverlap == InitOverlap /\ [][NextConc]_vars

\* ------------------------------------------------- the pool build alone
\* fetch_candidates after its count query, for corpora of more records than
\* the sampling loop has attempts.  The remote answers a page request of the
\* paging path with no record or with one (the same one each time); the
\* sampling path gets any page.
PagedTotals == {BuilderMaxAttempts, BuilderMaxAttempts + 1}
SampledTotals == {PoolFloor + 1, MaxAccessible + PageSize}
OneRecordPages == {<<>>, <<1>>}

InitBuilder ==
  /\ observations \in [Ids -> {0, 1}]
  /\ images = [i \in Ids |-> IF observations[i] > 0 THEN "complete" ELSE "none"]
  /\ \E n \in TargetChoices, total \in PagedTotals \cup SampledTotals :
       run = [r \in Runs |->
                IF r = "r1"
                THEN [NoLocals EXCEPT
                        !.pc = IF FetchesSequentially(total, n) THEN "seq" ELSE "sample",
                        !.target_count = n, !.existing_ids = TableIds,
                        !.total_results = total, !.page = 1]
                ELSE NoLocals]
  /\ hist = [r \in Runs |-> IF r = "r1" THEN [NoHist EXCEPT !.count = "ok"] ELSE NoHist]
  /\ lastSave = NoSave
  /\ idsAtLastFinish = {}
  /\ call = NoCall
  /\ ingest = NoIngest
  /\ processed_log = [i \in Ids |-> 0]
  /\ tasks = [i \in Ids |-> 0]
  /\ sync = NoSync
  /\ initdb = NoInitDb

NextBuilder ==
  \E r \in {"r1"} :
    \/ SeqPageFrom(r, OneRecordPages) \/ SeqReturn(r)
    \/ SamplePage(r) \/ SampleReturn(r)

SpecBuilder == InitBuilder /\ [][NextBuilder]_vars

\* ------------------------------------------------------- one run alone
\* One run of the fetcher from its start to its end, on a table that holds
\* any rows and from which nothing is deleted meanwhile.  The remote and the
\* database answer each request in any of the ways they can; the process is
\* not held up for ever, it takes its next step whenever it has one.
InitOneRun ==
  /\ observations \in [Ids -> {0, 1}]
  /\ images = [i \in Ids |-> IF observations[i] > 0 THEN "complete" ELSE "none"]
  /\ run = [r \in Runs |-> NoLocals]
  /\ hist = [r \in Runs |-> NoHist]
  /\ lastSave = NoSave
  /\ idsAtLastFinish = {}
  /\ call = NoCall
  /\ ingest = NoIngest
  /\ processed_log = [i \in Ids |-> 0]
  /\ tasks = [i \in Ids |-> 0]
  /\ sync = NoSync
  /\ initdb = NoInitDb

\* the steps a started run takes by itself
RunSteps(r) ==
  \/ LoadRegistry(r) \/ CountQuery(r)
  \/ SeqPage(r) \/ SeqReturn(r) \/ SamplePage(r) \/ SampleReturn(r)
  \/ Shuffle(r) \/ Complete(r) \/ SkipKnown(r) \/ ProcessObservation(r)
  \/ DownloadImage(r) \/ SaveObservation(r)

\* fetch_candidates, line 124, fetch_batch, line 179, and fetch_all_available,
\* line 203: requests.get is called without a timeout, so with a remote that
\* accepts the request and never answers the call does not return
RequestHangs(r) ==
  /\ \/ run[r].pc = "count"
     \/ run[r].pc = "seq" /\ PagingGoesOn(r)
     \/ run[r].pc = "sample" /\ SamplingGoesOn(r)
  /\ Goto(r, [run[r] EXCEPT !.pc = "blocked"])
  /\ UNCHANGED hist
  /\ DbUnchanged
  /\ Elsewhere

NextOneRun ==
  \E r \in {"r1"} : Start(r) \/ RunSteps(r) \/ RequestHangs(r) \/ Interrupt(r)

SpecOneRun == InitOneRun /\ [][NextOneRun]_vars /\ WF_vars(RunSteps("r1"))

\* ------------------------------------------------ the ingestion pipeline
\* scripts/ingest_data.py: main waits for Label Studio, loads the processed
\* log and then polls the remote for one random observation after the other.
\* An id is written to the log as str(id) on a line of its own and read back
\* with strip(): the line read is the id written.
MaxCopies == 2

\* the other programs stay as they are
IngestOnly ==
  UNCHANGED <<run, hist, observations, lastSave, idsAtLastFinish, call, sync, initdb>>

\* load_processed_ids, lines 38-41: the ids that have a line in the log
load_processed_ids == {i \in Ids : processed_log[i] > 0}

\* the pipeline is started
IngestStart ==
  /\ ingest.pc = "off"
  /\ ingest' = [NoIngest EXCEPT !.pc = "wait"]
  /\ UNCHANGED <<images, processed_log, tasks>>
  /\ IngestOnly

\* wait_for_label_studio, lines 219-227: one connection check; on success the
\* function returns, otherwise it sleeps and checks again
CheckLabelStudio ==
  /\ ingest.pc = "wait"
  /\ \/ ingest' = [ingest EXCEPT !.pc = "load"]
     \/ ingest' = [ingest EXCEPT !.pc = "wait_sleep"]
  /\ UNCHANGED <<images, processed_log, tasks>>
  /\ IngestOnly

\* wait_for_label_studio, line 229
WaitSleep ==
  /\ ingest.pc = "wait_sleep"
  /\ ingest' = [ingest EXCEPT !.pc = "wait"]
  /\ UNCHANGED <<images, processed_log, tasks>>
  /\ IngestOnly

\* main, line 235
LoadProcessedIds ==
  /\ ingest.pc = "load"
  /\ ingest' = [ingest EXCEPT !.pc = "fetch", !.processed = load_processed_ids]
  /\ UNCHANGED <<images, processed_log, tasks>>
  /\ IngestOnly

\* main, lines 238-242, with get_random_observation, lines 49-80: the remote
\* gives nothing (or fails), or one observation, with photos or without
GetRandomObservation ==
  /\ ingest.pc = "fetch"
  /\ \/ ingest' = [ingest EXCEPT !.pc = "retry_sleep"]
     \/ \E i \in Ids, photos \in BOOLEAN :
          /\ tasks[i] < MaxCopies
          /\ ingest' = [ingest EXCEPT !.pc = "check", !.obs_id = i, !.photos = photos,
                                       !.last = "none"]
  /\ UNCHANGED <<images, processed_log, tasks>>
  /\ IngestOnly

\* main, lines 241-242
RetrySleep ==
  /\ ingest.pc = "retry_sleep"
  /\ ingest' = [ingest EXCEPT !.pc = "fetch"]
  /\ UNCHANGED <<images, processed_log, tasks>>
  /\ IngestOnly

\* main without its lines 250-252: the photos of the observation are not
\* looked at
CheckObservationAnyPhotos ==
  /\ ingest.pc = "check"
  /\ IF ingest.obs_id \in ingest.processed
     THEN ingest' = [ingest EXCEPT !.pc = "fetch", !.obs_id = 0, !.photos = FALSE,
                                   !.last = "duplicate"]
     ELSE ingest' = [ingest EXCEPT !.pc = "download"]
  /\ UNCHANGED <<images, processed_log, tasks>>
  /\ IngestOnly

\* main, lines 244-252: a duplicate or an observation without photos is
\* passed over at once
CheckObservation ==
  /\ ingest.pc = "check"
  /\ IF ingest.obs_id \in ingest.processed
     THEN ingest' = [ingest EXCEPT !.pc = "fetch", !.obs_id = 0, !.photos = FALSE,
                                   !.last = "duplicate"]
     ELSE IF ~ingest.photos
     THEN ingest' = [ingest EXCEPT !.pc = "fetch", !.obs_id = 0, !.photos = FALSE,
                                   !.last = "no_photos"]
     ELSE ingest' = [ingest EXCEPT !.pc = "download"]
  /\ UNCHANGED <<images, processed_log, tasks>>
  /\ IngestOnly

\* download_image, lines 86-92: the request fails and None is returned, or
\* the file is opened for writing, which empties it
IngestRequestImage ==
  /\ ingest.pc = "download"
  /\ \/ /\ ingest' = [ingest EXCEPT !.pc = "sleep", !.last = "download_failed"]
        /\ UNCHANGED images
     \/ /\ ingest' = [ingest EXCEPT !.pc = "write"]
        /\ images' = [images EXCEPT ![ingest.obs_id] = "partial"]
  /\ UNCHANGED <<processed_log, tasks>>
  /\ IngestOnly

\* download_image, lines 92-99, and main, lines 258-259
IngestWriteImage ==
  /\ ingest.pc = "write"
  /\ \E written \in BOOLEAN :
       /\ images' = [images EXCEPT ![ingest.obs_id] = IF written THEN "complete" ELSE @]
       /\ ingest' = [ingest EXCEPT
                       !.pc = IF download_image(written) # "None" THEN "sync" ELSE "sleep",
                       !.written = written,
                       !.last = IF download_image(written) # "None" THEN @
                                ELSE "download_failed"]
  /\ UNCHANGED <<processed_log, tasks>>
  /\ IngestOnly

\* main with line 260 not testing what sync_to_label_studio returned
SyncResultIgnored ==
  /\ ingest.pc = "sync"
  /\ \/ /\ tasks' = [tasks EXCEPT ![ingest.obs_id] = @ + 1]
        /\ ingest' = [ingest EXCEPT !.pc = "record", !.synced = TRUE]
     \/ /\ UNCHANGED tasks
        /\ ingest' = [ingest EXCEPT !.pc = "record"]
  /\ UNCHANGED <<images, processed_log>>
  /\ IngestOnly

\* sync_to_label_studio, lines 183-212, and main, line 260: the task is
\* imported and True returned, or no credentials or an exception: False
SyncToLabelStudio ==
  /\ ingest.pc = "sync"
  /\ \/ /\ tasks' = [tasks EXCEPT ![ingest.obs_id] = @ + 1]
        /\ ingest' = [ingest EXCEPT !.pc = "record", !.synced = TRUE]
     \/ /\ UNCHANGED tasks
        /\ ingest' = [ingest EXCEPT !.pc = "sleep", !.last = "sync_failed"]
  /\ UNCHANGED <<images, processed_log>>
  /\ IngestOnly

\* save_processed_id, lines 44-46, called at line 261: a line is appended to
\* the log (the set held by main is not touched)
SaveProcessedId ==
  /\ ingest.pc = "record"
  /\ processed_log' = [processed_log EXCEPT ![ingest.obs_id] = @ + 1]
  /\ ingest' = [ingest EXCEPT !.pc = "sleep", !.last = "recorded"]
  /\ UNCHANGED <<images, tasks>>
  /\ IngestOnly

\* main, line 263, and back to line 237
Sleep ==
  /\ ingest.pc = "sleep"
  /\ ingest' = [ingest EXCEPT !.pc = "fetch", !.obs_id = 0, !.photos = FALSE,
                               !.written = FALSE, !.synced = FALSE]
  /\ UNCHANGED <<images, processed_log, tasks>>
  /\ IngestOnly

\* the process is stopped from outside; its files stay
IngestKill ==
  /\ ingest.pc # "off"
  /\ ingest' = NoIngest
  /\ UNCHANGED <<images, processed_log, tasks>>
  /\ IngestOnly

\* the steps the running pipeline takes by itself
IngestRuns ==
  \/ CheckLabelStudio \/ WaitSleep \/ LoadProcessedIds
  \/ GetRandomObservation \/ RetrySleep \/ CheckObservation
  \/ IngestRequestImage \/ IngestWriteImage \/ SyncToLabelStudio
  \/ SaveProcessedId \/ Sleep

NextIngest == IngestStart \/ IngestRuns \/ IngestKill

\* a running pipeline is not held up for ever: it takes its next step
SpecIngest == Init /\ [][NextIngest]_vars /\ WF_vars(IngestRuns)

\* ------------------------------------------- the bulk sync to Label Studio
\* scripts/sync_to_labelstudio.py: main reads the observations table and
\* creates one Label Studio task per row read; with --skip-duplicates it first
\* asks the project for its tasks and passes over the rows whose id it found.
\* An id is compared as str(observation_id) on both sides: the text of the id
\* read from the table and the text of the id stored in the task are the same.
SyncOnly ==
  UNCHANGED <<run, hist, observations, images, lastSave, idsAtLastFinish,
              call, ingest, processed_log, initdb>>

\* --num: not given (None), or a number of rows
NumChoices == {NoArg} \cup (1..MaxIds)

\* the lists that hold each id of a set once: the orders a SELECT can give
Orderings(ids) ==
  {q \in [1..Cardinality(ids) -> ids] : \A i, j \in 1..Cardinality(ids) : i # j => q[i] # q[j]}

\* get_observations_without_tasks, lines 73-95: every row of the table, newest
\* first, cut to the first num rows when --num is given (observation_id is the
\* primary key, so no id comes twice)
get_observations_without_tasks(num) ==
  {IF num = NoArg THEN q ELSE SubSeq(q, 1, Min(num, Len(q))) : q \in Orderings(TableIds)}

\* get_existing_task_ids, lines 112-121: the ids of the tasks of the project
get_existing_task_ids == {i \in Ids : tasks[i] > 0}

\* main, lines 167-186: the script is started with its arguments
SyncStart ==
  /\ sync.pc = "off"
  /\ \A i \in Ids : tasks[i] < MaxCopies
  /\ \E skip \in BOOLEAN, num \in NumChoices :
       sync' = [NoSync EXCEPT !.pc = "connect", !.skip_duplicates = skip, !.num = num]
  /\ UNCHANGED tasks
  /\ SyncOnly

\* main, lines 188-191: without a connection to Label Studio main returns
SyncCheckConnection ==
  /\ sync.pc = "connect"
  /\ \/ sync' = [sync EXCEPT !.pc = "list"]
     \/ sync' = [sync EXCEPT !.pc = "done"]
  /\ UNCHANGED tasks
  /\ SyncOnly

\* main, lines 199-202, with get_existing_task_ids, lines 98-125: with
\* --skip-duplicates the tasks of the project are asked for; an answer other
\* than 200 or an exception gives the empty set
SyncListTasks ==
  /\ sync.pc = "list"
  /\ IF sync.skip_duplicates
     THEN \/ sync' = [sync EXCEPT !.pc = "read", !.existing_ids = get_existing_task_ids,
                                  !.listing = "ok"]
          \/ sync' = [sync EXCEPT !.pc = "read", !.existing_ids = {},
                                  !.listing = "failed"]
     ELSE sync' = [sync EXCEPT !.pc = "read"]
  /\ UNCHANGED tasks
  /\ SyncOnly

\* main, lines 205-223: the database is connected to (or main returns) and
\* the rows are read; with no row main returns
SyncReadObservations ==
  /\ sync.pc = "read"
  /\ \/ sync' = [sync EXCEPT !.pc = "done"]
     \/ \E rows \in get_observations_without_tasks(sync.num) :
          sync' = [sync EXCEPT !.pc = IF rows = <<>> THEN "done" ELSE "loop",
                               !.observations = rows, !.idx = 1]
  /\ UNCHANGED tasks
  /\ SyncOnly

\* main, line 229: the row is passed over
Skips(skip_duplicates, obs_id, existing_ids) ==
  skip_duplicates /\ obs_id \in existing_ids

\* main, lines 225-235, with create_label_studio_task, lines 128-164: the next
\* row is passed over, or a task is asked for: it is created and counted
\* (status 201), or it is not
SyncObservation ==
  /\ sync.pc = "loop"
  /\ sync.idx <= Len(sync.observations)
  /\ LET obs_id == sync.observations[sync.idx]
     IN IF Skips(sync.skip_duplicates, obs_id, sync.existing_ids)
        THEN /\ sync' = [sync EXCEPT !.idx = @ + 1, !.skipped_count = @ + 1]
             /\ UNCHANGED tasks
        ELSE \/ /\ tasks' = [tasks EXCEPT ![obs_id] = @ + 1]
                /\ sync' = [sync EXCEPT !.idx = @ + 1, !.created_count = @ + 1]
             \/ /\ UNCHANGED tasks
                /\ sync' = [sync EXCEPT !.idx = @ + 1]
  /\ SyncOnly

\* main, lines 237-243: the loop is over, the counts are reported
SyncCompleted ==
  /\ sync.pc = "loop"
  /\ sync.idx > Len(sync.observations)
  /\ sync' = [sync EXCEPT !.pc = "done"]
  /\ UNCHANGED tasks
  /\ SyncOnly

\* the process ends: its locals are gone
SyncExit ==
  /\ sync.pc = "done"
  /\ sync' = NoSync
  /\ UNCHANGED tasks
  /\ SyncOnly

\* the script is run again and again on a table that holds any rows
InitSync ==
  /\ observations \in [Ids -> {0, 1}]
  /\ images = [i \in Ids |-> IF observations[i] > 0 THEN "complete" ELSE "none"]
  /\ run = [r \in Runs |-> NoLocals]
  /\ hist = [r \in Runs |-> NoHist]
  /\ lastSave = NoSave
  /\ idsAtLastFinish = {}
  /\ call = NoCall
  /\ ingest = NoIngest
  /\ processed_log = [i \in Ids |-> 0]
  /\ tasks = [i \in Ids |-> 0]
  /\ sync = NoSync
  /\ initdb = NoInitDb

NextSync ==
  \/ SyncStart \/ SyncCheckConnection \/ SyncListTasks \/ SyncReadObservations
  \/ SyncObservation \/ SyncCompleted \/ SyncExit

SpecSync == InitSync /\ [][NextSync]_vars

\* ------------------------------------------------ the database set-up
\* scripts/init_db.py run as a script: wait_for_db tries to connect up to
\* max_attempts times, two seconds apart, and the schema is initialised when
\* it returned True.  The script calls wait_for_db() with the default of 30
\* attempts; the function is also followed for a few small max_attempts.
DefaultMaxAttempts == 30
MaxWaitArg == 2

MaxAttemptsChoices == (0..MaxWaitArg) \cup {DefaultMaxAttempts}

InitDbOnly ==
  UNCHANGED <<run, hist, observations, images, lastSave, idsAtLastFinish,
              call, ingest, processed_log, tasks, sync>>

\* __main__, line 137: wait_for_db is called
InitDbStart ==
  /\ initdb.pc = "off"
  /\ \E n \in MaxAttemptsChoices :
       initdb' = [NoInitDb EXCEPT !.pc = "try", !.max_attempts = n]
  /\ InitDbOnly

\* wait_for_db, line 83: the attempt that failed was the last one
IsLastAttempt(attempt, max_attempts) == ~(attempt < max_attempts - 1)

\* wait_for_db, lines 76-88: one pass of the loop.  The connection is made
\* and True is returned; or it raises OperationalError, and the function
\* sleeps before the next pass or, after the last attempt, returns False; or
\* it raises something else, which nothing catches
WaitForDbTry ==
  /\ initdb.pc = "try"
  /\ initdb.attempt < initdb.max_attempts
  /\ \/ initdb' = [initdb EXCEPT !.pc = "returned", !.ret = "True",
                                  !.connects = @ + 1]
     \/ initdb' = [initdb EXCEPT
                     !.pc = IF IsLastAttempt(initdb.attempt, initdb.max_attempts)
                            THEN "returned" ELSE "sleep",
                     !.ret = IF IsLastAttempt(initdb.attempt, initdb.max_attempts)
                             THEN "False" ELSE @,
                     !.connects = @ + 1, !.failed = @ + 1]
     \/ initdb' = [initdb EXCEPT !.pc = "exit", !.ret = "raised",
                                  !.connects = @ + 1]
  /\ InitDbOnly

\* (mutant) the loop does not count its passes
WaitForDbSleepUncounted ==
  /\ initdb.pc = "sleep"
  /\ initdb' = [initdb EXCEPT !.pc = "try"]
  /\ InitDbOnly

\* wait_for_db, line 85, and the next value of the loop variable
WaitForDbSleep ==
  /\ initdb.pc = "sleep"
  /\ initdb' = [initdb EXCEPT !.pc = "try", !.attempt = @ + 1]
  /\ InitDbOnly

\* wait_for_db, line 89: the loop is over (it never started: max_attempts
\* is 0 or less)
WaitForDbExhausted ==
  /\ initdb.pc = "try"
  /\ ~(initdb.attempt < initdb.max_attempts)
  /\ initdb' = [initdb EXCEPT !.pc = "returned", !.ret = "False"]
  /\ InitDbOnly

\* __main__, line 137: the test of what wait_for_db returned
SchemaGuard(ret) == ret = "True"

\* __main__, lines 137-141: init_schema is called, or the script exits with 1
InitDbMain ==
  /\ initdb.pc = "returned"
  /\ initdb' = [initdb EXCEPT !.pc = "exit",
                              !.schema = IF SchemaGuard(initdb.ret) THEN "called" ELSE @]
  /\ InitDbOnly

\* the process is gone
InitDbExit ==
  /\ initdb.pc = "exit"
  /\ initdb' = NoInitDb
  /\ InitDbOnly

NextInitDb ==
  \/ InitDbStart \/ WaitForDbTry \/ WaitForDbSleep \/ WaitForDbExhausted
  \/ InitDbMain \/ InitDbExit

SpecInitDb == Init /\ [][NextInitDb]_vars

\* ------------------------------------------------- single function calls
\* The decisions of fetch_candidates and the coordinate fields of
\* save_observation, each as one call: the arguments are drawn at the start
\* and the call computes its result from them.
FetcherUnchanged ==
  UNCHANGED <<run, hist, observations, images, lastSave, idsAtLastFinish>>

MaxPoolTarget == 21
MaxLocLen == 3

\* the characters of a location string: a digit, the comma, any other character
Chars == {"1", ",", "x"}
LocationChoices == UNION {[1..k -> Chars] : k \in 0..MaxLocLen}

\* the sizes at which the pool target of a target count may lie
Thresholds(target_count) == {target_count * PoolMultiplier, PoolFloor}

\* str.split(','), line 88: the parts of s between its commas
RECURSIVE SplitOnComma(_)
SplitOnComma(s) ==
  IF s = <<>> THEN << <<>> >>
  ELSE LET rest == SplitOnComma(Tail(s))
       IN IF Head(s) = ","
          THEN << <<>> >> \o rest
          ELSE << <<Head(s)>> \o Head(rest) >> \o Tail(rest)

\* obs_data.get('location') is neither None nor the empty string
HasLocation(given, location) == given /\ location # <<>>

\* save_observation, line 88: the latitude parameter of the insert
LatitudeParam(given, location) ==
  IF HasLocation(given, location) THEN SplitOnComma(location)[1] ELSE Null

\* save_observation, line 89: the longitude parameter of the insert
LongitudeParam(given, location) ==
  IF HasLocation(given, location) /\ "," \in Range(location)
  THEN SplitOnComma(location)[2] ELSE Null

\* init_db.py, lines 25-26: a DECIMAL column takes NULL or the text of a number
DecimalAccepts(text) ==
  \/ text = Null
  \/ text # <<>> /\ \A i \in 1..Len(text) : text[i] = "1"

InitFn ==
  /\ run = [r \in Runs |-> NoLocals]
  /\ hist = [r \in Runs |-> NoHist]
  /\ observations = [i \in Ids |-> 0]
  /\ images = [i \in Ids |-> "none"]
  /\ lastSave = NoSave
  /\ idsAtLastFinish = {}
  /\ ingest = NoIngest
  /\ processed_log = [i \in Ids |-> 0]
  /\ tasks = [i \in Ids |-> 0]
  /\ sync = NoSync
  /\ initdb = NoInitDb
  /\ \/ \E n \in 1..MaxPoolTarget :
          \E b, c \in Thresholds(n) :
          \E total \in {b, b + 1, MaxAccessible}, size \in {c - 1, c},
             a \in {BuilderMaxAttempts - 1, BuilderMaxAttempts} :
            call = [NoCall EXCEPT !.fn = "fetch_candidates", !.target_count = n,
                                  !.total_results = total, !.size = size,
                                  !.attempts = a]
     \/ \E given \in BOOLEAN, loc \in LocationChoices :
          /\ ~given => loc = <<>>
          /\ call = [NoCall EXCEPT !.fn = "save_observation", !.given = given,
                                   !.location = loc]

\* fetch_candidates, lines 113, 133 and 144: the path taken for total_results
\* and, on the sampling path, whether the loop goes on with a pool of that
\* size after that many attempts
ApplyFetchCandidates ==
  /\ call.fn = "fetch_candidates" /\ ~call.done
  /\ LET seq == FetchesSequentially(call.total_results, call.target_count)
     IN call' = [call EXCEPT
                   !.done = TRUE,
                   !.path = IF seq THEN "seq" ELSE "sample",
                   !.goes_on = ~seq /\ SamplingContinues(call.size, call.attempts,
                                                         call.target_count)]
  /\ FetcherUnchanged
  /\ UNCHANGED <<ingest, processed_log, tasks, sync, initdb>>

\* save_observation, lines 66-105, for an id that has no row: the insert is
\* committed with the two coordinate parameters, or a parameter is not the
\* text of a number, the insert raises and is rolled back
ApplySaveObservation ==
  /\ call.fn = "save_observation" /\ ~call.done
  /\ LET lat == LatitudeParam(call.given, call.location)
         long == LongitudeParam(call.given, call.location)
         ok == DecimalAccepts(lat) /\ DecimalAccepts(long)
     IN call' = [call EXCEPT !.done = TRUE, !.ret = ok,
                             !.latitude = IF ok THEN lat ELSE Null,
                             !.longitude = IF ok THEN long ELSE Null]
  /\ FetcherUnchanged
  /\ UNCHANGED <<ingest, processed_log, tasks, sync, initdb>>

NextFn == ApplyFetchCandidates \/ ApplySaveObservation

SpecFn == InitFn /\ [][NextFn]_vars

\* ================================================================ claims
NoRepeats(s) == \A i, j \in 1..Len(s) : i # j => s[i] # s[j]
InPipeline(r) == run[r].pc \in {"loop", "write", "save"}
\* the pool build of run r has returned and took the sequential-paging path
ReturnedFromPaging(r) ==
  /\ run[r].pc = "shuffle"
  /\ hist[r].count = "ok"
  /\ run[r].total_results <= pool_target(run[r].target_count)
\* the pool build of run r is on, or has returned from, the random-sampling path
OnSampling(r) ==
  /\ run[r].pc \in {"sample", "shuffle"}
  /\ hist[r].count = "ok"
  /\ run[r].total_results > pool_target(run[r].target_count)
\* the pool build of run r is on, or has returned from, the sequential-paging path
OnPaging(r) ==
  /\ run[r].pc \in {"seq", "shuffle"}
  /\ hist[r].count = "ok"
  /\ run[r].total_results <= pool_target(run[r].target_count)
\* the attempt budget of the claim for a run started with --max-attempts m:
\* 3 x target unless the option is given
Budget(r, m) == IF m = NoArg THEN 3 * run[r].target_count ELSE m

\* C1 (as claimed): at every point of a run, accepted <= target, accepted <=
\* attempted, and attempted <= the attempt budget (3 x target, or --max-attempts),
\* whichever --max-attempts the run was started with.
C1_WithinBudget ==
  \A r \in Runs : InPipeline(r) =>
    /\ Len(hist[r].acceptLog) <= run[r].target_count
    /\ Len(hist[r].acceptLog) <= Len(hist[r].attemptLog)
    /\ \A m \in ArgChoices : Len(hist[r].attemptLog) <= Budget(r, m)

\* C1 (amended): at every point of a run, accepted <= target, accepted <=
\* attempted, and attempted <= the number of candidates in the pool; the
\* count the loop keeps is the number of accepted ids.
C1_WithinPool ==
  \A r \in Runs : InPipeline(r) =>
    /\ Len(hist[r].acceptLog) <= run[r].target_count
    /\ Len(hist[r].acceptLog) <= Len(hist[r].attemptLog)
    /\ Len(hist[r].attemptLog) <= Len(run[r].candidates)
    /\ run[r].processed_count = Len(hist[r].acceptLog)

C1_Witness ==
  \E r \in Runs :
    /\ run[r].pc = "loop"
    /\ Len(hist[r].acceptLog) = run[r].target_count
    /\ Len(hist[r].attemptLog) > Len(hist[r].acceptLog)

\* C2: with runs one after the other and no purge in between, no id has two
\* rows in the observations table, and no id a run counts as accepted had a
\* row when the run before it ended.
C2_Idempotent ==
  /\ \A i \in Ids : observations[i] <= 1
  /\ \A r \in Runs : Range(hist[r].acceptLog) \cap idsAtLastFinish = {}

C2_Witness ==
  \E r \in Runs :
    /\ idsAtLastFinish # {}
    /\ hist[r].acceptLog # <<>>
    /\ \A i \in idsAtLastFinish : observations[i] = 1
    /\ Len(hist[r].attemptLog) < run[r].idx - 1

\* C3 (as claimed): when two overlapping runs persist the same id, one row
\* exists afterwards and the call that found the row already there reports
\* that it wrote no new row.
C3_LaterSaveReportsNoNewRow ==
  /\ \A i \in Ids : observations[i] <= 1
  /\ lastSave.existed => ~lastSave.ret

\* C4 (as claimed): the pool fetch_candidates returns holds each id at most
\* once, on the sampling path and on the paging path.
C4_PoolIdsUnique ==
  \A r \in Runs : run[r].pc = "shuffle" => NoRepeats(run[r].candidates)

\* C5 (as claimed): when total_results <= pool_target, the pool returned
\* holds every one of the total_results records.
C5_WholeCorpus ==
  \A r \in Runs : ReturnedFromPaging(r) =>
    Cardinality(Range(run[r].candidates)) >= run[r].total_results

\* C5 (amended): when total_results <= pool_target, the Builder pages from
\* page 1 on, one page after the other, and returns when the number of
\* results collected (repeats counted) has reached total_results, or when a
\* page request failed or returned no results.
C5_PagedUntilTotalOrBreak ==
  \A r \in Runs : ReturnedFromPaging(r) =>
    /\ \/ Len(run[r].candidates) >= run[r].total_results
       \/ hist[r].lastPage \in {"empty", "error"}
    /\ run[r].page = 1 + hist[r].pageRequests
                       - (IF hist[r].lastPage \in {"empty", "error"} THEN 1 ELSE 0)

C5_Witness ==
  \E r \in Runs :
    /\ ReturnedFromPaging(r)
    /\ hist[r].lastPage = "empty"
    /\ run[r].candidates # <<>>
    /\ Len(run[r].candidates) < run[r].total_results

\* C6: every page request of random-offset sampling carries an offset in
\* [0, min(total_results, 10000) - 200], below the offset ceiling.
C6_OffsetInWindow ==
  \A r \in Runs : (OnSampling(r) /\ hist[r].pageRequests > 0) =>
    /\ 0 <= run[r].offset
    /\ run[r].offset <= Min(run[r].total_results, MaxAccessible) - PageSize
    /\ run[r].offset < MaxAccessible

C6_Witness ==
  \E r \in Runs :
    /\ OnSampling(r)
    /\ hist[r].pageRequests > 0
    /\ run[r].offset = MaxAccessible - PageSize

\* C7 (as claimed): within one run process_observation is called at most
\* once for each id: a candidate that failed is not processed again.
C7_NoSecondAttempt ==
  \A r \in Runs : NoRepeats(hist[r].attemptLog)

C9_AlwaysReportsCount ==
  \A r \in Runs :
    (run[r].pc = "done" /\ hist[r].outcome \notin {"no_connection", "interrupted"}) =>
      /\ hist[r].outcome = "completed"
      /\ hist[r].reported = Len(hist[r].acceptLog)

\* C9 (amended): a run that has built its pool ends in one of three ways: it
\* completes, when the target is reached or the pool is exhausted, and reports
\* the number of records it accepted; or it is interrupted; or a save fails
\* and its rollback fails too, which ends the run with an error.  A failed
\* asset fetch or a save that was rolled back never ends the run.
C9_RunEndsOnlyByCompletionInterruptOrDbLoss ==
  [][\A r \in Runs :
       (InPipeline(r) /\ run'[r].pc = "done") =>
         \/ hist'[r].outcome = "interrupted"
         \/ /\ hist'[r].outcome = "unexpected_error"
            /\ run[r].pc = "save"
         \/ /\ hist'[r].outcome = "completed"
            /\ run[r].pc = "loop"
            /\ \/ run[r].idx > Len(run[r].candidates)
               \/ Len(hist[r].acceptLog) >= run[r].target_count
            /\ hist'[r].reported = Len(hist[r].acceptLog)]_vars

C9_Witness ==
  \E r \in Runs :
    /\ run[r].pc = "done"
    /\ hist[r].outcome = "completed"
    /\ hist[r].reported = 1
    /\ Len(hist[r].attemptLog) > Len(hist[r].acceptLog)

\* C10: a row of the observations table is committed for an id only by a run
\* that has just written the image of that id in full; after a failed or
\* unfinished image write no row is written for the candidate.
C10_AssetBeforeRow ==
  [][\A i \in Ids :
       observations'[i] > observations[i] =>
         \E r \in Runs : /\ run[r].pc = "save"
                         /\ Current(r) = i
                         /\ hist[r].written
                         /\ lastSave'.run = r]_vars

C10_Witness ==
  \E i, j \in Ids :
    /\ observations[i] = 1 /\ images[i] = "complete"
    /\ observations[j] = 0 /\ images[j] = "partial"
    /\ \E r \in Runs : run[r].pc = "done" /\ hist[r].outcome = "interrupted"

\* C11 (as claimed): the pool target, by which fetch_candidates chooses
\* between sequential paging and sampling and at which sampling stops, is
\* min(10 x target, 200).
C11_PoolTargetIsSmaller ==
  (call.fn = "fetch_candidates" /\ call.done) =>
    LET p == Min(10 * call.target_count, 200)
    IN /\ call.path = "seq" <=> call.total_results <= p
       /\ call.path = "sample" =>
            (call.goes_on <=> (call.size < p /\ call.attempts < 20))

\* C11 (amended): the pool target is the larger of 10 x target and 200:
\* sequential paging is chosen exactly when total_results is at most that,
\* and sampling goes on exactly while the pool is smaller than that and
\* fewer than 20 attempts were made.
C11_PoolTargetIsLarger ==
  (call.fn = "fetch_candidates" /\ call.done) =>
    \E p \in {10 * call.target_count, 200} :
       /\ p >= 10 * call.target_count /\ p >= 200
       /\ call.path = "seq" <=> call.total_results <= p
       /\ call.path = "sample" =>
            (call.goes_on <=> (call.size < p /\ call.attempts < 20))

C11_Witness ==
  /\ call.fn = "fetch_candidates" /\ call.done
  /\ call.target_count = 1
  /\ call.total_results = 200
  /\ call.path = "seq"

\* C12 (as claimed): one pool build issues at most 20 page requests, on the
\* sampling path and on the paging path, whatever the remote returns.
C12_AtMostTwentyRequests ==
  \A r \in Runs : hist[r].pageRequests <= 20

\* C12 (amended): on the sampling path one pool build issues at most 20 page
\* requests, one for each attempt; on the paging path it issues at most
\* total_results page requests, which is at most the pool target and can be
\* more than 20.
C12_RequestsWithinAttemptsOrTotal ==
  \A r \in Runs :
    /\ OnSampling(r) => /\ hist[r].pageRequests = run[r].attempts
                         /\ hist[r].pageRequests <= 20
    /\ OnPaging(r) => /\ hist[r].pageRequests <= run[r].total_results
                       /\ run[r].total_results <= Max(10 * run[r].target_count, 200)

C12_Witness ==
  \E r \in Runs :
    /\ OnPaging(r)
    /\ run[r].pc = "shuffle"
    /\ hist[r].pageRequests = 21
    /\ hist[r].lastPage = "results"

\* C13 (as claimed): the pool fetch_candidates returns holds no id of the
\* registry it was given, on the sampling path and on the paging path.
C13_PoolOutsideRegistry ==
  \A r \in Runs :
    run[r].pc = "shuffle" => Range(run[r].candidates) \cap run[r].existing_ids = {}

\* C14 (as claimed): sampling stops only when the pool has reached the pool
\* target or 20 attempts were made; after a page request that failed or
\* returned nothing, sampling goes on.
C14_SamplingStopsOnlyAtTargetOrBudget ==
  \A r \in Runs :
    (OnSampling(r) /\ run[r].pc = "shuffle") =>
      \/ Len(run[r].candidates) >= pool_target(run[r].target_count)
      \/ run[r].attempts >= 20

\* C15: for a candidate whose id is in the registry the step of the loop only
\* moves on to the next candidate: no image is requested or written, no row
\* is written, and the attempts and the accepted count stay as they were.
C15_KnownCandidateChangesNothing ==
  [][\A r \in Runs :
       (/\ InLoop(r) /\ Current(r) \in run[r].existing_ids
        /\ run'[r] # run[r] /\ run'[r].pc # "done") =>
         /\ run'[r] = [run[r] EXCEPT !.idx = @ + 1]
         /\ hist'[r] = hist[r]
         /\ observations' = observations
         /\ images' = images
         /\ lastSave' = lastSave]_vars

C15_Witness ==
  \E r \in Runs :
    /\ run[r].pc = "loop"
    /\ run[r].idx = 2
    /\ run[r].candidates[1] \in run[r].existing_ids
    /\ hist[r].attemptLog = <<>>
    /\ observations[run[r].candidates[1]] = 1
    /\ images[run[r].candidates[1]] = "complete"

\* C16: when a candidate is persisted successfully its id joins the registry
\* of the run and the accepted count grows by exactly one; within one run no
\* id is accepted twice and no id gets a second row, also when the pool
\* holds the id several times.
C16_AcceptedOncePerRun ==
  /\ [](\A r \in Runs : InPipeline(r) =>
          /\ NoRepeats(hist[r].acceptLog)
          /\ Range(hist[r].acceptLog) \subseteq run[r].existing_ids
          /\ \A i \in Range(hist[r].acceptLog) : observations[i] <= 1)
  /\ [][\A r \in Runs :
         (InPipeline(r) /\ hist'[r].acceptLog # hist[r].acceptLog) =>
           /\ run[r].pc = "save"
           /\ hist'[r].acceptLog = Append(hist[r].acceptLog, Current(r))
           /\ Current(r) \notin run[r].existing_ids
           /\ run'[r].existing_ids = run[r].existing_ids \cup {Current(r)}
           /\ run'[r].processed_count = run[r].processed_count + 1
           /\ observations'[Current(r)] = 1]_vars

C16_Witness ==
  \E r \in Runs :
    /\ run[r].pc = "loop"
    /\ run[r].idx = 3
    /\ run[r].candidates[1] = run[r].candidates[2]
    /\ hist[r].acceptLog = <<run[r].candidates[1]>>
    /\ hist[r].attemptLog = <<run[r].candidates[1]>>
    /\ run[r].processed_count = 1

\* C17: save_observation called for an id that has a row leaves the table as
\* it is, and the call succeeds unless the insert raised for another reason:
\* it returns True.
C17_ConflictLeavesRowAndSucceeds ==
  [][\A r \in Runs :
       (/\ run[r].pc = "save" /\ observations[Current(r)] > 0
        /\ run'[r] # run[r]) =>
         /\ observations' = observations
         /\ run'[r].pc # "done" =>
              /\ lastSave'.run = r /\ lastSave'.id = Current(r) /\ lastSave'.existed
              /\ lastSave'.ret = ~lastSave'.raised]_vars

C17_Witness ==
  /\ lastSave.run # "none"
  /\ lastSave.existed /\ lastSave.ret
  /\ observations[lastSave.id] = 1
  /\ \E r \in Runs : r # lastSave.run /\ lastSave.id \in Range(hist[r].acceptLog)

C19_RetryLoopsEnd ==
  /\ (ingest.pc = "wait") ~> (ingest.pc \notin {"wait", "wait_sleep"})
  /\ (ingest.pc = "retry_sleep") ~> (ingest.pc \notin {"fetch", "retry_sleep"})

\* C20 (as claimed): a stored record has coordinates only when the location
\* string has a comma: for a location without a comma save_observation stores
\* NULL for both latitude and longitude.
C20_NoCommaNoCoordinates ==
  (/\ call.fn = "save_observation" /\ call.done /\ call.ret
   /\ "," \notin Range(call.location)) =>
     call.latitude = Null /\ call.longitude = Null

\* the pipeline has the observation in hand past the checks of lines 246-252
IngestHandles == ingest.pc \in {"download", "write", "sync", "record"}

\* C21: an observation drawn with an empty photos list is passed over: the
\* step that looks at it leaves the images, the processed log and the tasks as
\* they are and drops the observation (the loop goes to its next draw with
\* nothing kept of it), and whatever the pipeline downloads, syncs or records
\* was drawn with photos.
C21_NoPhotosIsPassedOver ==
  /\ [](IngestHandles => ingest.photos)
  /\ [][(ingest.pc = "check" /\ ~ingest.photos)
         => /\ UNCHANGED <<images, processed_log, tasks>>
            /\ ingest'.pc \in {"fetch", "off"}
            /\ ingest'.obs_id = 0]_vars

\* an observation without photos that was not in the processed set has just
\* been passed over
C21_Witness ==
  /\ ingest.pc = "fetch"
  /\ ingest.last = "no_photos"
  /\ ingest.obs_id = 0

\* C23: every observation has at most one task in Label Studio, and an
\* observation that has a line in the processed log is never downloaded or
\* synced again.
C23_SyncedAtMostOnce ==
  /\ \A i \in Ids : tasks[i] <= 1
  /\ IngestHandles /\ ingest.pc # "record" => processed_log[ingest.obs_id] = 0

\* C26: a line is appended to the processed log only by the step that follows
\* a download that wrote the image in full and then a sync that returned True,
\* and it is one line for the observation in hand; a task is only created for
\* an observation whose image was written; every other step, a failed download
\* or a failed sync among them, leaves the log as it is.
C26_LoggedAfterDownloadThenSync ==
  /\ [](ingest.pc = "record"
          => ingest.written /\ ingest.synced /\ images[ingest.obs_id] = "complete")
  /\ [](ingest.synced => ingest.written /\ tasks[ingest.obs_id] > 0)
  /\ [][processed_log' # processed_log
         => /\ ingest.pc = "record"
            /\ processed_log' = [processed_log EXCEPT ![ingest.obs_id] = @ + 1]]_vars
  /\ [][tasks' # tasks => ingest.pc = "sync" /\ ingest.written]_vars
  /\ [][ingest'.last \in {"download_failed", "sync_failed"}
         => UNCHANGED processed_log]_vars

\* an observation was downloaded, synced and then recorded
C26_Witness ==
  /\ ingest.last = "recorded"
  /\ \E i \in Ids : processed_log[i] = 1 /\ tasks[i] = 1 /\ images[i] = "complete"

\* C22: every run that has started ends.  The paging loop adds at least one
\* result with every request it survives, the sampling loop counts every
\* request and never goes beyond BuilderMaxAttempts of them, the processing
\* loop moves to the next pool entry every time it comes back to its head and
\* never goes beyond the end of the pool, so each pool entry is tried at most
\* once; and a started run always reaches its end.
C22_EveryRunEnds ==
  /\ [](\A r \in Runs :
          /\ run[r].attempts <= BuilderMaxAttempts
          /\ run[r].idx <= Len(run[r].candidates) + 1
          /\ InPipeline(r) => Len(hist[r].attemptLog) <= Len(run[r].candidates))
  /\ [][\A r \in Runs :
          /\ (run[r].pc = "seq" /\ run'[r].pc = "seq" /\ run'[r] # run[r])
               => Len(run'[r].candidates) > Len(run[r].candidates)
          /\ (run[r].pc = "sample" /\ run'[r].pc = "sample" /\ run'[r] # run[r])
               => run'[r].attempts = run[r].attempts + 1
          /\ (InPipeline(r) /\ run'[r].pc = "loop" /\ run'[r] # run[r])
               => run'[r].idx = run[r].idx + 1]_vars
  /\ \A r \in {"r1"} : Active(r) ~> run[r].pc = "done"

\* C24: with no row deleted from the table, every id of the registry of a
\* run has a row in the table, and from one step of the run to the next the
\* registry keeps every id it holds.
C24_RegistryWithinTable ==
  /\ [](\A r \in Runs : run[r].existing_ids \subseteq TableIds)
  /\ [][\A r \in Runs :
          Active(r) /\ Active(r)' => run[r].existing_ids \subseteq run'[r].existing_ids]_vars

\* the registry holds an id it loaded from the table and one it accepted
C24_Witness ==
  /\ Active("r1")
  /\ \E i, j \in run["r1"].existing_ids :
       /\ i \in Range(hist["r1"].acceptLog)
       /\ j \notin Range(hist["r1"].acceptLog)

\* C25: a run with --skip-duplicates creates no task for an observation that
\* already has a task in the project, and in every run the tasks created and
\* the rows passed over are together no more than the rows read.
C25_SkipDuplicatesNoSecondTask ==
  /\ [](sync.created_count + sync.skipped_count <= Len(sync.observations))
  /\ [][\A i \in Ids :
          sync.skip_duplicates /\ tasks'[i] > tasks[i] => tasks[i] = 0]_vars

\* wait_for_db has returned
WaitForDbReturned == initdb.ret \in {"True", "False"}

\* C27: wait_for_db never makes more than max_attempts connection attempts;
\* it makes no attempt after one that succeeded and then returns True, so
\* every attempt before the successful one failed; it returns False exactly
\* when max_attempts attempts were made and all of them failed; and
\* init_schema is called only after wait_for_db returned True.
C27_WaitForDbBounded ==
  /\ [](initdb.connects <= initdb.max_attempts)
  /\ [](initdb.ret = "True" => initdb.connects = initdb.failed + 1)
  /\ [](WaitForDbReturned
          => (initdb.ret = "False"
                <=> initdb.failed = initdb.max_attempts
                    /\ initdb.connects = initdb.max_attempts))
  /\ [](initdb.schema = "called" => initdb.ret = "True")
  /\ [][WaitForDbReturned /\ initdb'.pc # "off"
         => initdb'.connects = initdb.connects /\ initdb'.ret = initdb.ret]_vars

\* the script's call: every attempt but the last failed, the last one
\* connected, and the schema was initialised
C27_Witness ==
  /\ initdb.max_attempts = DefaultMaxAttempts
  /\ initdb.failed = DefaultMaxAttempts - 1
  /\ initdb.ret = "True"
  /\ initdb.schema = "called"

====
